---- MODULE Spec2Model ----
(***************************************************************************)
(* wettermail (main.py): the encrypted configuration store (ConfigManager), *)
(* the clothing recommendation (conditions, clothing), the report built by *)
(* send_email and the submit flow of the form (UserGUI.on_submit).         *)
(*                                                                         *)
(* Text that passes through the settings file is a sequence of one         *)
(* character strings, so that what configparser does to a value (strip on  *)
(* read, %-interpolation on set/get) is computed and not assumed.  Phrases *)
(* of the report are TLA+ strings joined with \o.                          *)
(***************************************************************************)
EXTENDS Integers, Sequences, FiniteSets, TLC

VARIABLES keyFile, cfgFile, mgr, gui, keysGenerated, tokensMade, last

vars == <<keyFile, cfgFile, mgr, gui, keysGenerated, tokensMade, last>>

(***************************************************************************)
(* Bounds of the model.                                                    *)
(***************************************************************************)
\* Fernet.generate_key() calls explored in one behaviour.
MaxKeys == 2
\* cipher.encrypt() calls explored in one behaviour (each makes a fresh token).
MaxTokens == 2

(***************************************************************************)
(* Text: characters, str.strip(), int(), str().                            *)
(***************************************************************************)
DigitChars == <<"0", "1", "2", "3", "4", "5", "6", "7", "8", "9">>

DigitVal(c) == (CHOOSE i \in 1..10 : DigitChars[i] = c) - 1

RECURSIVE LStrip(_)
LStrip(s) == IF s # <<>> /\ Head(s) = " " THEN LStrip(Tail(s)) ELSE s

RECURSIVE RStrip(_)
RStrip(s) ==
    IF s # <<>> /\ s[Len(s)] = " " THEN RStrip(SubSeq(s, 1, Len(s) - 1)) ELSE s

\* str.strip(): what configparser applies to every value it parses from a file.
Strip(s) == RStrip(LStrip(s))

RECURSIVE DigitsToNat(_)
DigitsToNat(s) ==
    IF s = <<>> THEN 0
    ELSE 10 * DigitsToNat(SubSeq(s, 1, Len(s) - 1)) + DigitVal(s[Len(s)])

\* int(text) for an optionally signed decimal numeral.
PyInt(s) ==
    LET t == Strip(s)
    IN  IF t # <<>> /\ Head(t) = "-" THEN 0 - DigitsToNat(Tail(t))
        ELSE DigitsToNat(t)

RECURSIVE NatToDigits(_)
NatToDigits(n) ==
    IF n < 10 THEN <<DigitChars[n + 1]>>
    ELSE NatToDigits(n \div 10) \o <<DigitChars[(n % 10) + 1]>>

\* str(n) for an integer n.
PyStr(n) == IF n < 0 THEN <<"-">> \o NatToDigits(0 - n) ELSE NatToDigits(n)

(***************************************************************************)
(* configparser.ConfigParser with its default BasicInterpolation.          *)
(***************************************************************************)
\* A '%' that is not the first half of "%%": set() refuses such a value with
\* ValueError and get() raises InterpolationSyntaxError on it.
RECURSIVE BadPercent(_)
BadPercent(s) ==
    IF s = <<>> THEN FALSE
    ELSE IF Head(s) # "%" THEN BadPercent(Tail(s))
    ELSE IF Len(s) >= 2 /\ s[2] = "%" THEN BadPercent(Tail(Tail(s)))
    ELSE TRUE

\* The value get() returns for a stored raw value: "%%" reads as "%".
RECURSIVE Interpolate(_)
Interpolate(s) ==
    IF s = <<>> THEN <<>>
    ELSE IF Head(s) = "%" /\ Len(s) >= 2 /\ s[2] = "%"
         THEN <<"%">> \o Interpolate(Tail(Tail(s)))
    ELSE <<Head(s)>> \o Interpolate(Tail(s))

\* The seven plain options in the order save_config sets them.
PlainFields ==
    <<"latitude", "longitude", "language", "cold_threshold", "warm_threshold",
      "sender_email", "receiver_email">>

\* The stored secret field: k = 0 is plain text s (empty, or whatever a file
\* holds that is no Fernet token); k >= 1 is the Fernet token made under key k
\* from plaintext s with nonce n.
PlainText(s) == [k |-> 0, s |-> s, n |-> 0]

NoSections == [present |-> FALSE]


\* create_default_config: the record it puts in self.config and writes out.
DefaultConfig ==
    [present |-> TRUE,
     latitude |-> <<"5", "1", ".", "4", "3", "4", "4">>,
     longitude |-> <<"6", ".", "7", "6", "2", "3">>,
     language |-> <<"d", "e">>,
     cold_threshold |-> <<"5">>,
     warm_threshold |-> <<"2", "0">>,
     sender_email |-> <<"s", "e", "n", "d", "e", "r", "@", "g", "m", "a", "i", "l", ".", "c", "o", "m">>,
     receiver_email |-> <<"r", "e", "c", "e", "i", "v", "e", "r", "@", "g", "m", "a", "i", "l", ".", "c", "o", "m">>,
     encrypted_password |-> PlainText(<<>>)]

\* What a parse of the file's text yields for a stored record: every value
\* stripped of surrounding blanks (a Fernet token has none).
Parsed(c) ==
    [f \in DOMAIN c |->
        IF f = "present" THEN c[f]
        ELSE IF f = "encrypted_password"
             THEN (IF c[f].k = 0 THEN PlainText(Strip(c[f].s)) ELSE c[f])
        ELSE Strip(c[f])]

\* self.config.read(self.config_path): a missing file is skipped silently; a
\* file without sections adds nothing; otherwise the file's options replace
\* those in memory.
ReadFile(mem, cf) ==
    IF cf.exists /\ cf.cfg.present THEN Parsed(cf.cfg) ELSE mem

\* with open(self.config_path, "w") as f: self.config.write(f)
WriteFile(mem) == [exists |-> TRUE, cfg |-> mem]

NoFile == [exists |-> FALSE, cfg |-> NoSections]

\* create_default_config(): both sections are replaced by the defaults in
\* memory and the file is rewritten from memory.
create_default_config(mem, cf) ==
    [config |-> DefaultConfig, cfgFile |-> WriteFile(DefaultConfig)]

(***************************************************************************)
(* The key file passwordKey.txt and generate_password_key().               *)
(* st: "absent", "invalid" (content Fernet() rejects with ValueError),      *)
(* "unreadable" (open() fails with an OSError other than FileNotFoundError) *)
(* or "valid" with the key k >= 1 it holds.                                 *)
(***************************************************************************)
KeyAbsent == [st |-> "absent", k |-> 0]
KeyInvalid == [st |-> "invalid", k |-> 0]
KeyUnreadable == [st |-> "unreadable", k |-> 0]
ValidKey(k) == [st |-> "valid", k |-> k]

\* generate_password_key with the call of create_default_config left out.
generate_password_key_KeepsConfig(mem, kf, cf, kg) ==
    IF kf.st = "valid"
    THEN [exc |-> "none", ret |-> kf.k, keyFile |-> kf, config |-> mem,
          cfgFile |-> cf, keysGenerated |-> kg, regenerated |-> FALSE]
    ELSE IF kf.st = "unreadable"
    THEN [exc |-> "PermissionError", ret |-> 0, keyFile |-> kf, config |-> mem,
          cfgFile |-> cf, keysGenerated |-> kg, regenerated |-> FALSE]
    ELSE [exc |-> "none", ret |-> kg + 1, keyFile |-> ValidKey(kg + 1),
          config |-> mem, cfgFile |-> cf,
          keysGenerated |-> kg + 1, regenerated |-> TRUE]

\* generate_password_key returning a new key it never writes to the file.
generate_password_key_NoWrite(mem, kf, cf, kg) ==
    IF kf.st = "valid"
    THEN [exc |-> "none", ret |-> kf.k, keyFile |-> kf, config |-> mem,
          cfgFile |-> cf, keysGenerated |-> kg, regenerated |-> FALSE]
    ELSE IF kf.st = "unreadable"
    THEN [exc |-> "PermissionError", ret |-> 0, keyFile |-> kf, config |-> mem,
          cfgFile |-> cf, keysGenerated |-> kg, regenerated |-> FALSE]
    ELSE [exc |-> "none", ret |-> kg + 1, keyFile |-> kf,
          config |-> DefaultConfig, cfgFile |-> WriteFile(DefaultConfig),
          keysGenerated |-> kg + 1, regenerated |-> TRUE]

\* generate_password_key(): the outcome for memory mem, key file kf, settings
\* file cf and kg keys generated so far.  ret is the key returned (0: none).
generate_password_key(mem, kf, cf, kg) ==
    IF kf.st = "valid"
    THEN [exc |-> "none", ret |-> kf.k, keyFile |-> kf, config |-> mem,
          cfgFile |-> cf, keysGenerated |-> kg, regenerated |-> FALSE]
    ELSE IF kf.st = "unreadable"
    THEN [exc |-> "PermissionError", ret |-> 0, keyFile |-> kf, config |-> mem,
          cfgFile |-> cf, keysGenerated |-> kg, regenerated |-> FALSE]
    ELSE LET d == create_default_config(mem, cf)
         IN  [exc |-> "none", ret |-> kg + 1, keyFile |-> ValidKey(kg + 1),
              config |-> d.config, cfgFile |-> d.cfgFile,
              keysGenerated |-> kg + 1, regenerated |-> TRUE]

\* ConfigManager.__init__(config_path): a fresh parser, defaults when the file
\* is missing, then the key.
ConfigManager_init(kf, cf, kg) ==
    LET d == IF cf.exists THEN [config |-> NoSections, cfgFile |-> cf]
             ELSE create_default_config(NoSections, cf)
    IN  generate_password_key(d.config, kf, d.cfgFile, kg)

(***************************************************************************)
(* load_config() and save_config().                                        *)
(***************************************************************************)
Nil == [none |-> TRUE]

\* The text int() accepts: an optionally signed, non-empty run of digits.
IsNumeral(s) ==
    LET t == Strip(s)
        u == IF t # <<>> /\ Head(t) = "-" THEN Tail(t) ELSE t
    IN  u # <<>> /\ \A i \in 1..Len(u) : \E j \in 1..10 : DigitChars[j] = u[i]

\* cipher.decrypt(token) under key k: the plaintext when the token was made
\* under k; anything else (another key's token, text that is no token) raises
\* InvalidToken.
DecryptOk(k, enc) == enc.k >= 1 /\ enc.k = k

\* The try/except around decrypt: an empty field is not decrypted at all, a
\* failed decryption yields "".
decrypted_password(k, enc) ==
    IF enc.k = 0 /\ enc.s = <<>> THEN <<>>
    ELSE IF DecryptOk(k, enc) THEN enc.s
    ELSE <<>>

\* load_config() of a manager m (its parser m.config, its key m.key) against
\* the settings file cf.
load_config(m, cf) ==
    LET mem == ReadFile(m.config, cf)
    IN  IF ~mem.present
        THEN [exc |-> "NoSectionError", ret |-> Nil, config |-> mem]
        ELSE IF mem.encrypted_password.k = 0 /\ BadPercent(mem.encrypted_password.s)
        THEN [exc |-> "InterpolationSyntaxError", ret |-> Nil, config |-> mem]
        ELSE IF \E i \in 1..Len(PlainFields) : BadPercent(mem[PlainFields[i]])
        THEN [exc |-> "InterpolationSyntaxError", ret |-> Nil, config |-> mem]
        ELSE IF ~IsNumeral(Interpolate(mem.cold_threshold))
                \/ ~IsNumeral(Interpolate(mem.warm_threshold))
        THEN [exc |-> "ValueError", ret |-> Nil, config |-> mem]
        ELSE LET enc == IF mem.encrypted_password.k = 0
                        THEN PlainText(Interpolate(mem.encrypted_password.s))
                        ELSE mem.encrypted_password
             IN [exc |-> "none",
                 ret |-> [latitude |-> Interpolate(mem.latitude),
                          longitude |-> Interpolate(mem.longitude),
                          language |-> Interpolate(mem.language),
                          cold_threshold |-> PyInt(Interpolate(mem.cold_threshold)),
                          warm_threshold |-> PyInt(Interpolate(mem.warm_threshold)),
                          sender_email |-> Interpolate(mem.sender_email),
                          receiver_email |-> Interpolate(mem.receiver_email),
                          decrypted_password |-> decrypted_password(m.key, enc)],
                 config |-> mem]

\* The first n config.set() calls of save_config applied to mem.
SetPlain(mem, a, n) ==
    [f \in DOMAIN mem |->
        IF \E i \in 1..n : PlainFields[i] = f THEN a[f] ELSE mem[f]]

\* The first option whose value set() refuses (0: none).
FirstRefused(a) ==
    IF \E i \in 1..Len(PlainFields) : BadPercent(a[PlainFields[i]])
    THEN CHOOSE i \in 1..Len(PlainFields) :
            /\ BadPercent(a[PlainFields[i]])
            /\ \A j \in 1..(i - 1) : ~BadPercent(a[PlainFields[j]])
    ELSE 0

\* cipher.encrypt(password): a fresh token under key k (nonce n).
Encrypt(k, pw, n) == [k |-> k, s |-> pw, n |-> n]

\* save_config(latitude, ..., receiver_email, password) with the seven plain
\* arguments in record a and the password pw; tm tokens made so far.
save_config(m, cf, tm, a, pw) ==
    LET mem == ReadFile(m.config, cf)
    IN  IF ~mem.present
        THEN [exc |-> "NoSectionError", config |-> mem, cfgFile |-> cf,
              tokensMade |-> tm]
        ELSE IF FirstRefused(a) > 0
        THEN [exc |-> "ValueError",
              config |-> SetPlain(mem, a, FirstRefused(a) - 1),
              cfgFile |-> cf, tokensMade |-> tm]
        ELSE LET new == [SetPlain(mem, a, Len(PlainFields))
                            EXCEPT !.encrypted_password = Encrypt(m.key, pw, tm + 1)]
             IN  [exc |-> "none", config |-> new, cfgFile |-> WriteFile(new),
                  tokensMade |-> tm + 1]

(***************************************************************************)
(* The recommendation: conditions(), clothing(), and the report built by   *)
(* send_email().                                                           *)
(***************************************************************************)
\* conditions with "Thunderstorm" missing from the first list.
conditions_NoThunderstorm(main) ==
    IF main \in {"Rain", "Drizzle"} THEN "Kopfbedeckung und "
    ELSE IF main \in {"Snow"} THEN "Handschuhe, Kopfbedeckung und "
    ELSE ""

\* conditions(main)
conditions(main) ==
    IF main \in {"Rain", "Drizzle", "Thunderstorm"} THEN "Kopfbedeckung und "
    ELSE IF main \in {"Snow"} THEN "Handschuhe, Kopfbedeckung und "
    ELSE ""

\* clothing with >= in place of > in the first comparison.
clothing_WarmInclusive(temperature, cold_threshold, warm_threshold) ==
    IF temperature >= PyInt(warm_threshold) THEN "luftige Kleidung"
    ELSE IF temperature < PyInt(cold_threshold) THEN "warme Kleidung"
    ELSE "normale Kleidung"

\* clothing(temperature, cold_threshold, warm_threshold); the thresholds
\* arrive as text and go through int().
clothing(temperature, cold_threshold, warm_threshold) ==
    IF temperature > PyInt(warm_threshold) THEN "luftige Kleidung"
    ELSE IF temperature < PyInt(cold_threshold) THEN "warme Kleidung"
    ELSE "normale Kleidung"

\* 273.15 K in hundredths of a kelvin.
ZeroCelsius == 27315

\* round(x) for x = h / 100: to the nearest integer, a tie to the even one.
PyRound(h) ==
    LET q == h \div 100
        r == h % 100
    IN  IF r < 50 THEN q
        ELSE IF r > 50 THEN q + 1
        ELSE IF q % 2 = 0 THEN q ELSE q + 1

\* The conversion with int() in place of round(): truncation towards zero.
Celsius_Truncated(kelvin100) ==
    IF kelvin100 >= 27315 THEN (kelvin100 - 27315) \div 100
    ELSE 0 - ((27315 - kelvin100) \div 100)

\* temp = round(data["main"]["temp"] - 273.15), the temperature given in
\* hundredths of a kelvin (for these the float difference rounds as the exact
\* one does from 256 K upwards).
Celsius(kelvin100) == PyRound(kelvin100 - ZeroCelsius)

\* The message send_email builds from a non-empty data.
Report(data, cold_threshold, warm_threshold, today) ==
    LET region == data.name
        description == data.description
        temp == Celsius(data.temp)
        main == data.main
        conditions_txt == conditions(main)
        clothing_txt == clothing(temp, cold_threshold, warm_threshold)
    IN  [subject |-> "Wetterbericht für " \o region \o " am " \o today,
         heading |-> "Wetterbericht " \o region \o " für den " \o today,
         description |-> description,
         temp |-> temp,
         unit |-> "°C",
         advice |-> conditions_txt \o clothing_txt]

\* What the SMTP session (connect, starttls, login, sendmail) can do.
\* "sent": accepted.  "SMTPAuthenticationError" (login rejected) and
\* "SMTPConnectError" (the server answers the connection with an error code)
\* are subclasses of smtplib.SMTPException.  "ConnectionRefusedError" is the
\* OSError the socket raises when the connection cannot be made (like
\* socket.gaierror and TimeoutError); it is no SMTPException.
SmtpOutcomes ==
    {"sent", "SMTPAuthenticationError", "SMTPConnectError",
     "ConnectionRefusedError"}

IsSMTPException(o) ==
    o \in {"SMTPAuthenticationError", "SMTPConnectError"}

\* An empty dict (or None) is falsy.
NoData == [empty |-> TRUE]

\* send_email(data, sender, receiver, password, cold_threshold,
\* warm_threshold) on date today, the SMTP session ending as smtp.
\* ret: TRUE/FALSE when it returns; exc: the exception it lets through.
\* attempts: SMTP sessions opened.
send_email(data, cold_threshold, warm_threshold, today, smtp) ==
    IF data = NoData
    THEN [exc |-> "none", ret |-> FALSE, report |-> Nil, attempts |-> 0]
    ELSE LET msg == Report(data, cold_threshold, warm_threshold, today)
         IN  IF smtp = "sent"
             THEN [exc |-> "none", ret |-> TRUE, report |-> msg, attempts |-> 1]
             ELSE IF IsSMTPException(smtp)
             THEN [exc |-> "none", ret |-> FALSE, report |-> msg, attempts |-> 1]
             ELSE [exc |-> smtp, ret |-> FALSE, report |-> msg, attempts |-> 1]

(***************************************************************************)
(* get_data() and UserGUI.on_submit().                                     *)
(***************************************************************************)
\* What requests.get(url, timeout=10) yields: a response with a status code
\* and a JSON body, or the exception requests.exceptions.Timeout.
Response(status, body) == [kind |-> "response", status |-> status, body |-> body]

TimedOut == [kind |-> "Timeout", status |-> 0, body |-> NoData]

\* get_data without the check of the status code.
get_data_AnyStatus(resp) ==
    IF resp.kind # "response" THEN [exc |-> resp.kind, ret |-> NoData]
    ELSE [exc |-> "none", ret |-> resp.body]

\* get_data(api_key, lat, lon, lang): the body on status 200, None otherwise;
\* an exception of requests.get passes through.
get_data(resp) ==
    IF resp.kind # "response" THEN [exc |-> resp.kind, ret |-> NoData]
    ELSE IF resp.status = 200 THEN [exc |-> "none", ret |-> resp.body]
    ELSE [exc |-> "none", ret |-> NoData]

\* The slider ranges of addTemperatureSliders.
ColdMin == 0
ColdMax == 15
WarmMin == 15
WarmMax == 30

\* The arguments on_submit passes to save_config: the entries e and the two
\* slider values as text.
SubmitArgs(e, cold, warm) ==
    [latitude |-> e.latitude, longitude |-> e.longitude,
     language |-> e.language, cold_threshold |-> PyStr(cold),
     warm_threshold |-> PyStr(warm), sender_email |-> e.sender_email,
     receiver_email |-> e.receiver_email]

\* on_submit() of the form whose manager is m: entries e (with the password
\* field e.password), slider values cold and warm, the state of the "Eingaben
\* Speichern" checkbox, and what the network does (the answer resp to the
\* weather request, SMTP session smtp) on date today.  log lists what ran, in
\* order.
on_submit(m, cf, tm, e, cold, warm, checked, resp, smtp, today) ==
    LET a == SubmitArgs(e, cold, warm)
        got == get_data(resp)
        mail == send_email(got.ret, a.cold_threshold, a.warm_threshold, today, smtp)
        sv == save_config(m, cf, tm, a, e.password)
        unsaved == [config |-> m.config, cfgFile |-> cf, tokensMade |-> tm]
        stop(x, lg, rep, n) ==
            [exc |-> x, log |-> lg, report |-> rep, attempts |-> n,
             closed |-> FALSE, saved |-> FALSE, args |-> a, store |-> unsaved]
        finish(lg, rep, n, cl) ==
            IF ~checked
            THEN [exc |-> "none", log |-> lg, report |-> rep, attempts |-> n,
                  closed |-> cl, saved |-> FALSE, args |-> a, store |-> unsaved]
            ELSE [exc |-> sv.exc, log |-> lg \o <<"save_config">>, report |-> rep,
                  attempts |-> n, closed |-> cl, saved |-> (sv.exc = "none"),
                  args |-> a,
                  store |-> [config |-> sv.config, cfgFile |-> sv.cfgFile,
                             tokensMade |-> sv.tokensMade]]
        sending == <<"get_data", "conditions", "clothing", "report", "smtp">>
    IN  IF got.exc # "none" THEN stop(got.exc, <<"get_data">>, Nil, 0)
        ELSE IF got.ret # NoData
        THEN IF mail.exc # "none"
             THEN stop(mail.exc, sending, mail.report, mail.attempts)
             ELSE IF mail.ret
             THEN finish(sending \o <<"information_Erfolg", "close">>,
                         mail.report, mail.attempts, TRUE)
             ELSE finish(sending \o <<"warning_Senden">>,
                         mail.report, mail.attempts, FALSE)
        ELSE finish(<<"get_data", "warning_Abrufen">>, Nil, 0, FALSE)

(***************************************************************************)
(* The inputs explored.                                                    *)
(***************************************************************************)
ArgsPlain ==
    [latitude |-> <<"1">>, longitude |-> <<"2">>, language |-> <<"e", "n">>,
     cold_threshold |-> <<"7">>, warm_threshold |-> <<"2", "5">>,
     sender_email |-> <<"a", "@", "b">>, receiver_email |-> <<"c", "@", "d">>]

\* A language typed with a leading blank.
ArgsBlank == [ArgsPlain EXCEPT !.language = <<" ", "d", "e">>]

\* An address holding "%%".
ArgsEscaped == [ArgsPlain EXCEPT !.sender_email = <<"a", "%", "%", "b">>]

\* An address holding a single "%".
ArgsPercent == [ArgsPlain EXCEPT !.sender_email = <<"a", "%", "b">>]

SaveArgs == {ArgsPlain, ArgsBlank, ArgsEscaped, ArgsPercent}

Secrets == {<<>>, <<"p", "w">>}

\* What the form can hold when "Senden" is pressed: the text fields and
\* the two sliders (cold within ColdMin..ColdMax, warm within WarmMin..WarmMax).
Forms ==
    {[entries |-> [latitude |-> ArgsPlain.latitude,
                   longitude |-> ArgsPlain.longitude,
                   language |-> ArgsPlain.language,
                   sender_email |-> ArgsPlain.sender_email,
                   receiver_email |-> ArgsPlain.receiver_email,
                   password |-> <<"p", "w">>],
      cold |-> 5, warm |-> 20],
     [entries |-> [latitude |-> ArgsPlain.latitude,
                   longitude |-> ArgsPlain.longitude,
                   language |-> ArgsPlain.language,
                   sender_email |-> ArgsPlain.sender_email,
                   receiver_email |-> ArgsPlain.receiver_email,
                   password |-> <<>>],
      cold |-> ColdMax, warm |-> WarmMin],
     [entries |-> [latitude |-> ArgsPercent.latitude,
                   longitude |-> ArgsPercent.longitude,
                   language |-> ArgsPercent.language,
                   sender_email |-> ArgsPercent.sender_email,
                   receiver_email |-> ArgsPercent.receiver_email,
                   password |-> <<"p", "w">>],
      cold |-> ColdMin, warm |-> WarmMax]}

Observations ==
    {[name |-> "Ruhrort", main |-> "Rain", description |-> "light rain",
      temp |-> 28015],
     [name |-> "Ruhrort", main |-> "Clear", description |-> "clear sky",
      temp |-> 30115]}

\* The answers to the weather request: 200 with a weather document or with an
\* empty one, 404 and 204 (whatever body they carry), no answer in time.
Responses ==
    {Response(200, o) : o \in Observations \cup {NoData}}
        \cup {Response(404, o) : o \in Observations}
        \cup {Response(204, NoData), TimedOut}

Dates == {"05.11.26"}

\* Text a damaged settings file can hold in place of the token.
Garbage == {<<"x">>, <<"g", "%", "z">>}

(***************************************************************************)
(* State.                                                                  *)
(*   keyFile, cfgFile : passwordKey.txt and config.ini on disk             *)
(*   mgr              : the ConfigManager (self.config, self.key)          *)
(*   gui              : the UserGUI window                                 *)
(*   last             : the last call made, its outcome and what held      *)
(*                      when it was made                                   *)
(***************************************************************************)
NoMgr == [alive |-> FALSE, config |-> NoSections, key |-> 0]

NoGui == [open |-> FALSE]

\* A stored secret field that is not empty.
HadSecret(cf) ==
    cf.exists /\ cf.cfg.present /\ cf.cfg.encrypted_password # PlainText(<<>>)

Pre ==
    [keySt |-> keyFile.st, cfgExists |-> cfgFile.exists,
     hadSecret |-> HadSecret(cfgFile),
     stored |-> IF cfgFile.exists /\ cfgFile.cfg.present
                THEN cfgFile.cfg.encrypted_password ELSE PlainText(<<>>),
     key |-> mgr.key]

Call(op, exc, ret, info) ==
    [op |-> op, exc |-> exc, ret |-> ret, pre |-> Pre, info |-> info]

Init ==
    /\ keyFile = KeyAbsent
    /\ cfgFile = NoFile
    /\ mgr = NoMgr
    /\ gui = NoGui
    /\ keysGenerated = 0
    /\ tokensMade = 0
    /\ last = [op |-> "start", exc |-> "none", ret |-> Nil,
               pre |-> Nil, info |-> Nil]

\* config_manager = ConfigManager("config.ini"), as the program does at start.
Construct ==
    \E r \in {ConfigManager_init(keyFile, cfgFile, keysGenerated)} :
        /\ r.keysGenerated <= MaxKeys
        /\ keyFile' = r.keyFile
        /\ cfgFile' = r.cfgFile
        /\ keysGenerated' = r.keysGenerated
        /\ mgr' = IF r.exc = "none"
                  THEN [alive |-> TRUE, config |-> r.config, key |-> r.ret]
                  ELSE NoMgr
        /\ gui' = NoGui
        /\ last' = Call("ConfigManager", r.exc, r.ret,
                        [regenerated |-> r.regenerated])
        /\ UNCHANGED tokensMade

\* config_manager.generate_password_key() called on the manager.
GeneratePasswordKey ==
    /\ mgr.alive
    /\ \E r \in {generate_password_key(mgr.config, keyFile, cfgFile, keysGenerated)} :
           /\ r.keysGenerated <= MaxKeys
           /\ keyFile' = r.keyFile
           /\ cfgFile' = r.cfgFile
           /\ keysGenerated' = r.keysGenerated
           /\ mgr' = [mgr EXCEPT !.config = r.config]
           /\ last' = Call("generate_password_key", r.exc, r.ret,
                           [regenerated |-> r.regenerated])
    /\ UNCHANGED <<gui, tokensMade>>

\* config_manager.create_default_config() called on the manager.
CreateDefaultConfig ==
    /\ mgr.alive
    /\ \E d \in {create_default_config(mgr.config, cfgFile)} :
           /\ cfgFile' = d.cfgFile
           /\ mgr' = [mgr EXCEPT !.config = d.config]
    /\ last' = Call("create_default_config", "none", Nil, Nil)
    /\ UNCHANGED <<keyFile, gui, keysGenerated, tokensMade>>

\* config_manager.load_config()
LoadConfig ==
    /\ mgr.alive
    /\ \E r \in {load_config(mgr, cfgFile)} :
           /\ mgr' = [mgr EXCEPT !.config = r.config]
           /\ last' = Call("load_config", r.exc, r.ret,
                           [after |-> IF last.op = "save_config" /\ last.exc = "none"
                                      THEN last.info ELSE Nil])
    /\ UNCHANGED <<keyFile, cfgFile, gui, keysGenerated, tokensMade>>

\* config_manager.save_config(latitude, ..., password)
SaveConfig ==
    /\ mgr.alive
    /\ \E a \in SaveArgs, pw \in Secrets :
        \E r \in {save_config(mgr, cfgFile, tokensMade, a, pw)} :
            /\ r.tokensMade <= MaxTokens
            /\ cfgFile' = r.cfgFile
            /\ tokensMade' = r.tokensMade
            /\ mgr' = [mgr EXCEPT !.config = r.config]
            /\ last' = Call("save_config", r.exc, Nil,
                            [args |-> a, password |-> pw])
    /\ UNCHANGED <<keyFile, gui, keysGenerated>>

\* gui = UserGUI(config_manager): setupControls loads the configuration into
\* the fields; the window exists only if that returns.
GuiInit ==
    /\ mgr.alive
    /\ ~gui.open
    /\ \E r \in {load_config(mgr, cfgFile)} :
           /\ mgr' = [mgr EXCEPT !.config = r.config]
           /\ gui' = [open |-> r.exc = "none"]
           /\ last' = Call("UserGUI", r.exc, r.ret, Nil)
    /\ UNCHANGED <<keyFile, cfgFile, keysGenerated, tokensMade>>

\* The "Senden" button.  An exception that leaves the slot either ends the
\* program (PyQt5 from 5.5 on) or is printed and the window stays.
OnSubmit ==
    /\ mgr.alive
    /\ gui.open
    /\ \E form \in Forms, checked \in BOOLEAN, resp \in Responses, today \in Dates :
       \E smtp \in (IF resp.kind = "response" /\ resp.status = 200
                       /\ resp.body # NoData
                    THEN SmtpOutcomes ELSE {"unused"}) :
       \E r \in {on_submit(mgr, cfgFile, tokensMade, form.entries, form.cold,
                           form.warm, checked, resp, smtp, today)} :
       \E aborts \in (IF r.exc # "none" THEN BOOLEAN ELSE {FALSE}) :
            /\ r.store.tokensMade <= MaxTokens
            /\ cfgFile' = r.store.cfgFile
            /\ tokensMade' = r.store.tokensMade
            /\ mgr' = IF aborts THEN NoMgr ELSE [mgr EXCEPT !.config = r.store.config]
            /\ gui' = [open |-> ~aborts /\ ~r.closed]
            /\ last' = Call("on_submit", r.exc, Nil,
                            [log |-> r.log, report |-> r.report,
                             attempts |-> r.attempts, saved |-> r.saved,
                             checked |-> checked, resp |-> resp,
                             smtp |-> IF r.attempts > 0 THEN smtp ELSE "unused",
                             args |-> r.args, password |-> form.entries.password])
    /\ UNCHANGED <<keyFile, keysGenerated>>

(***************************************************************************)
(* What happens to the two files between calls.                            *)
(***************************************************************************)
Env(what) == [op |-> what, exc |-> "none", ret |-> Nil, pre |-> Pre, info |-> Nil]

EnvRemoveKey ==
    /\ keyFile.st # "absent"
    /\ keyFile' = KeyAbsent
    /\ last' = Env("remove_key")
    /\ UNCHANGED <<cfgFile, mgr, gui, keysGenerated, tokensMade>>

EnvCorruptKey ==
    /\ keyFile.st = "valid"
    /\ keyFile' = KeyInvalid
    /\ last' = Env("corrupt_key")
    /\ UNCHANGED <<cfgFile, mgr, gui, keysGenerated, tokensMade>>

EnvKeyUnreadable ==
    /\ keyFile.st \in {"valid", "invalid"}
    /\ keyFile' = KeyUnreadable
    /\ last' = Env("key_unreadable")
    /\ UNCHANGED <<cfgFile, mgr, gui, keysGenerated, tokensMade>>

EnvRemoveConfig ==
    /\ cfgFile.exists
    /\ cfgFile' = NoFile
    /\ last' = Env("remove_config")
    /\ UNCHANGED <<keyFile, mgr, gui, keysGenerated, tokensMade>>

EnvTruncateConfig ==
    /\ cfgFile.exists /\ cfgFile.cfg.present
    /\ cfgFile' = [exists |-> TRUE, cfg |-> NoSections]
    /\ last' = Env("truncate_config")
    /\ UNCHANGED <<keyFile, mgr, gui, keysGenerated, tokensMade>>

EnvDamageSecret ==
    /\ HadSecret(cfgFile)
    /\ cfgFile.cfg.encrypted_password.k >= 1
    /\ \E g \in Garbage :
        cfgFile' = [cfgFile EXCEPT !.cfg.encrypted_password = PlainText(g)]
    /\ last' = Env("damage_secret")
    /\ UNCHANGED <<keyFile, mgr, gui, keysGenerated, tokensMade>>

\* The configuration store: the manager's operations and the two files.
Next ==
    \/ Construct
    \/ GeneratePasswordKey
    \/ CreateDefaultConfig
    \/ LoadConfig
    \/ SaveConfig
    \/ EnvRemoveKey
    \/ EnvCorruptKey
    \/ EnvKeyUnreadable
    \/ EnvRemoveConfig
    \/ EnvTruncateConfig
    \/ EnvDamageSecret

Spec == Init /\ [][Next]_vars

\* The program as main runs it: the manager, the window, the button.
NextGui ==
    \/ Construct
    \/ GuiInit
    \/ OnSubmit
    \/ EnvRemoveKey
    \/ EnvRemoveConfig

SpecGui == Init /\ [][NextGui]_vars

(***************************************************************************)
(* The recommendation functions called on their own, over ranges of        *)
(* inputs.  They read and write no state, so one call from the start is    *)
(* every call.                                                             *)
(***************************************************************************)
\* Temperatures and thresholds range over -MaxDegrees..MaxDegrees, and over
\* the values the program's defaults and tests use.
MaxDegrees == 3

Degrees == (0 - MaxDegrees)..MaxDegrees

Temperatures == Degrees \cup {4, 5, 6, 19, 20, 21, 25}

Thresholds == Degrees \cup {5, 20}

ConditionCodes ==
    {"Rain", "Drizzle", "Thunderstorm", "Snow", "Clear", "Clouds", "Mist",
     "Fog", "rain", "Snowfall", ""}

\* Temperatures of the weather document, in hundredths of a kelvin.
Kelvins == {27040, 27265, 27315, 27365, 27465, 27565, 28015, 28075, 30115}

ThresholdPairs == {<<5, 20>>, <<0, 15>>, <<15, 15>>}

CallConditions ==
    /\ last.op = "start"
    /\ \E main \in ConditionCodes :
        last' = Call("conditions", "none", conditions(main), [main |-> main])
    /\ UNCHANGED <<keyFile, cfgFile, mgr, gui, keysGenerated, tokensMade>>

CallClothing ==
    /\ last.op = "start"
    /\ \E t \in Temperatures, c \in Thresholds, w \in Thresholds :
        last' = Call("clothing", "none", clothing(t, PyStr(c), PyStr(w)),
                     [temperature |-> t, cold |-> c, warm |-> w])
    /\ UNCHANGED <<keyFile, cfgFile, mgr, gui, keysGenerated, tokensMade>>

CallSendEmail ==
    /\ last.op = "start"
    /\ \E k \in Kelvins, main \in ConditionCodes, th \in ThresholdPairs,
          smtp \in SmtpOutcomes, today \in Dates :
        \E r \in {send_email([name |-> "Ruhrort", main |-> main,
                              description |-> "light rain", temp |-> k],
                             PyStr(th[1]), PyStr(th[2]), today, smtp)} :
            last' = Call("send_email", r.exc, r.ret,
                         [kelvin |-> k, main |-> main, cold |-> th[1],
                          warm |-> th[2], report |-> r.report,
                          attempts |-> r.attempts, smtp |-> smtp])
    /\ UNCHANGED <<keyFile, cfgFile, mgr, gui, keysGenerated, tokensMade>>

NextFn ==
    \/ CallConditions
    \/ CallClothing
    \/ CallSendEmail

SpecFn == Init /\ [][NextFn]_vars

(***************************************************************************)
(* Properties.                                                             *)
(***************************************************************************)
InLog(x) == \E i \in 1..Len(last.info.log) : last.info.log[i] = x

KeyCall == last.op \in {"generate_password_key", "ConfigManager"}

\* C1: when the key file is missing or invalid and the settings record holds
\* a non-empty encrypted secret, then after generate_password_key (called
\* directly or by the constructor) the record on disk exists and its
\* encrypted_password is empty: the new key is never left with the old field.
C1_KeyRegenerationResetsSecret ==
    (/\ KeyCall
     /\ last.exc = "none"
     /\ last.pre.keySt \in {"absent", "invalid"}
     /\ last.pre.hadSecret)
    => /\ cfgFile.exists
       /\ cfgFile.cfg.present
       /\ cfgFile.cfg.encrypted_password = PlainText(<<>>)
       /\ cfgFile.cfg.encrypted_password # last.pre.stored
       /\ keyFile = ValidKey(last.ret)

\* C1 witness: generate_password_key has regenerated an invalid key while a
\* token was stored.
C1_Witness ==
    /\ last.op = "generate_password_key"
    /\ last.pre.keySt = "invalid"
    /\ last.pre.hadSecret
    /\ last.pre.stored.k >= 1
    /\ last.info.regenerated

\* C2: load_config() right after a successful save_config(a, s) returns
\* decrypted_password = s and the latitude, longitude, language, thresholds
\* and addresses that were saved, for every s and every settings value.
C2_SaveLoadRoundTrip ==
    (last.op = "load_config" /\ last.info.after # Nil)
    => /\ last.exc = "none"
       /\ last.ret.decrypted_password = last.info.after.password
       /\ last.ret.latitude = last.info.after.args.latitude
       /\ last.ret.longitude = last.info.after.args.longitude
       /\ last.ret.language = last.info.after.args.language
       /\ PyStr(last.ret.cold_threshold) = last.info.after.args.cold_threshold
       /\ PyStr(last.ret.warm_threshold) = last.info.after.args.warm_threshold
       /\ last.ret.sender_email = last.info.after.args.sender_email
       /\ last.ret.receiver_email = last.info.after.args.receiver_email

\* C2, the part about the secret alone: load_config() right after a
\* successful save_config(a, s) returns decrypted_password = s.
C2_SecretRoundTrip ==
    (last.op = "load_config" /\ last.info.after # Nil)
    => /\ last.exc = "none"
       /\ last.ret.decrypted_password = last.info.after.password

\* C3: when the stored secret field is not empty and is no token of the
\* manager's key (a token of another key, or damaged text), load_config()
\* returns, with an empty decrypted_password and the other fields.
C3_FailSafeEmpty ==
    (/\ last.op = "load_config"
     /\ last.pre.hadSecret
     /\ ~DecryptOk(last.pre.key, last.pre.stored))
    => /\ last.exc = "none"
       /\ last.ret.decrypted_password = <<>>
       /\ last.ret.latitude = Interpolate(mgr.config.latitude)
       /\ last.ret.sender_email = Interpolate(mgr.config.sender_email)

\* C3, the part about another key's token alone: it reads as the empty
\* secret and load_config() returns.
C3_OtherKeyReadsEmpty ==
    (/\ last.op = "load_config"
     /\ last.pre.hadSecret
     /\ last.pre.stored.k >= 1
     /\ last.pre.stored.k # last.pre.key)
    => /\ last.exc = "none"
       /\ last.ret.decrypted_password = <<>>

\* C4: a submit whose weather request is answered with a status other than
\* 200, with an empty document or not in time computes no recommendation,
\* builds no report and opens no SMTP session.
C4_FetchFailureShortCircuits ==
    (/\ last.op = "on_submit"
     /\ \/ last.info.resp.kind = "Timeout"
        \/ last.info.resp.status # 200
        \/ last.info.resp.body = NoData)
    => /\ last.info.attempts = 0
       /\ last.info.report = Nil
       /\ ~InLog("conditions")
       /\ ~InLog("clothing")
       /\ ~InLog("report")
       /\ ~InLog("smtp")
       /\ ~InLog("information_Erfolg")

\* C4 witness: a submit answered 404 (with a weather document in the body)
\* has shown the fetch warning and done nothing else.
C4_Witness ==
    /\ last.op = "on_submit"
    /\ last.info.resp.kind = "response"
    /\ last.info.resp.status = 404
    /\ last.info.resp.body # NoData
    /\ ~last.info.checked
    /\ last.info.log = <<"get_data", "warning_Abrufen">>

\* C5: a submit whose SMTP session fails (login rejected, or the connection
\* fails) shows the failure warning, makes one delivery attempt and shows no
\* success message.
C5_DeliveryFailureReported ==
    (/\ last.op = "on_submit"
     /\ last.info.smtp \in {"SMTPAuthenticationError", "SMTPConnectError",
                            "ConnectionRefusedError"})
    => /\ InLog("warning_Senden")
       /\ last.info.attempts = 1
       /\ ~InLog("information_Erfolg")

\* C5, the part that holds of every failure: one attempt at most and never
\* the success message.
C5_NoRetryNoSuccess ==
    (/\ last.op = "on_submit"
     /\ last.info.smtp # "sent")
    => /\ last.info.attempts <= 1
       /\ ~InLog("information_Erfolg")

\* C6: clothing(t, c, w) is one of the three phrases for every integer
\* triple; when c <= w it is "luftige Kleidung" exactly when t > w, "warme
\* Kleidung" exactly when t < c and "normale Kleidung" otherwise, so t = c
\* and t = w give "normale Kleidung".
C6_TemperatureCategory ==
    last.op = "clothing"
    => LET t == last.info.temperature
           c == last.info.cold
           w == last.info.warm
       IN  /\ last.ret \in {"luftige Kleidung", "warme Kleidung", "normale Kleidung"}
           /\ c <= w =>
                /\ (last.ret = "luftige Kleidung") <=> (t > w)
                /\ (last.ret = "warme Kleidung") <=> (t < c)
                /\ (last.ret = "normale Kleidung") <=> (c <= t /\ t <= w)
                /\ (t = c \/ t = w) => last.ret = "normale Kleidung"

\* C6 witness: clothing called with the temperature on the warm threshold,
\* above the cold one.
C6_Witness ==
    /\ last.op = "clothing"
    /\ last.info.temperature = 20
    /\ last.info.warm = 20
    /\ last.info.cold = 5
    /\ last.ret = "normale Kleidung"

\* C7: conditions(main) is "Kopfbedeckung und " for Rain, Drizzle and
\* Thunderstorm, "Handschuhe, Kopfbedeckung und " for Snow and "" for every
\* other code.
C7_ConditionPhrase ==
    last.op = "conditions"
    => LET main == last.info.main
       IN  /\ main \in {"Rain", "Drizzle", "Thunderstorm"}
                => last.ret = "Kopfbedeckung und "
           /\ main = "Snow" => last.ret = "Handschuhe, Kopfbedeckung und "
           /\ main \notin {"Rain", "Drizzle", "Thunderstorm", "Snow"}
                => last.ret = ""

\* C7 witness: conditions called with "Thunderstorm".
C7_Witness ==
    /\ last.op = "conditions"
    /\ last.info.main = "Thunderstorm"
    /\ last.ret = "Kopfbedeckung und "

DefaultSettings ==
    [latitude |-> DefaultConfig.latitude,
     longitude |-> DefaultConfig.longitude,
     language |-> DefaultConfig.language,
     cold_threshold |-> 5,
     warm_threshold |-> 20,
     sender_email |-> DefaultConfig.sender_email,
     receiver_email |-> DefaultConfig.receiver_email,
     decrypted_password |-> <<>>]

\* C9: load_config() called while the settings file is missing creates the
\* file with the defaults and returns the defaults, without raising.
C9_AbsentRecordRecovered ==
    (last.op = "load_config" /\ ~last.pre.cfgExists)
    => /\ last.exc = "none"
       /\ last.ret = DefaultSettings
       /\ cfgFile = WriteFile(DefaultConfig)

\* The phrases as the claims give them, by condition code and by category.
C10_ConditionPhrase(main) ==
    CASE main \in {"Rain", "Drizzle", "Thunderstorm"} -> "Kopfbedeckung und "
      [] main = "Snow" -> "Handschuhe, Kopfbedeckung und "
      [] OTHER -> ""

C10_CategoryPhrase(t, c, w) ==
    CASE t > w -> "luftige Kleidung"
      [] t <= w /\ t < c -> "warme Kleidung"
      [] OTHER -> "normale Kleidung"

\* C10: the report's temperature is the integer nearest to kelvin - 273.15 (a
\* tie going to the even one, as round() does), and its advice is the
\* condition phrase followed at once by the category phrase of that
\* temperature; 280.15 K, Rain, (5, 20) gives 7 and "Kopfbedeckung und
\* normale Kleidung"; 301.15 K, Clear, (5, 20) gives "luftige Kleidung".
C10_AdviceComposition ==
    last.op = "send_email"
    => LET r == last.info.report
           d == last.info.kelvin - 27315
       IN  /\ r # Nil
           /\ 100 * r.temp - 50 <= d
           /\ d <= 100 * r.temp + 50
           /\ (d = 100 * r.temp - 50 \/ d = 100 * r.temp + 50) => r.temp % 2 = 0
           /\ r.advice = C10_ConditionPhrase(last.info.main)
                            \o C10_CategoryPhrase(r.temp, last.info.cold, last.info.warm)
           /\ (last.info.kelvin = 28015 /\ last.info.main = "Rain"
                 /\ last.info.cold = 5 /\ last.info.warm = 20)
                => r.temp = 7 /\ r.advice = "Kopfbedeckung und normale Kleidung"
           /\ (last.info.kelvin = 30115 /\ last.info.main = "Clear"
                 /\ last.info.cold = 5 /\ last.info.warm = 20)
                => r.temp = 28 /\ r.advice = "luftige Kleidung"

\* C10 witness: send_email has built the report for 280.15 K and Rain with
\* thresholds 5 and 20.
C10_Witness ==
    /\ last.op = "send_email"
    /\ last.info.kelvin = 28015
    /\ last.info.main = "Rain"
    /\ last.info.cold = 5
    /\ last.info.warm = 20
    /\ last.info.report.temp = 7
    /\ last.info.report.advice = "Kopfbedeckung und normale Kleidung"

\* The record save_config(a, pw) is to leave on disk: the seven values of a
\* and a token of pw under the manager's key with the newest nonce.
SavedRecord(a, pw) ==
    [present |-> TRUE,
     latitude |-> a.latitude,
     longitude |-> a.longitude,
     language |-> a.language,
     cold_threshold |-> a.cold_threshold,
     warm_threshold |-> a.warm_threshold,
     sender_email |-> a.sender_email,
     receiver_email |-> a.receiver_email,
     encrypted_password |-> [k |-> mgr.key, s |-> pw, n |-> tokensMade]]

\* C11: save_config(a, pw) succeeds from every prior state of the record (a
\* missing or empty one included) and leaves on disk exactly the saved values
\* of all eight fields, with a fresh token of pw, whatever was there before.
\* (Values that set() refuses are left aside: they are no matter of the prior
\* record.)
C11_SaveIsFullRewrite ==
    (last.op = "save_config" /\ FirstRefused(last.info.args) = 0)
    => /\ last.exc = "none"
       /\ cfgFile = WriteFile(SavedRecord(last.info.args, last.info.password))
       /\ cfgFile.cfg.encrypted_password # last.pre.stored

\* C11, the part about a save that succeeds: the record on disk is exactly
\* the saved values with a fresh token.
C11_SavedRecordIsArgs ==
    (last.op = "save_config" /\ last.exc = "none")
    => /\ cfgFile = WriteFile(SavedRecord(last.info.args, last.info.password))
       /\ cfgFile.cfg.encrypted_password # last.pre.stored

\* C12: once generate_password_key has returned (called by the constructor or
\* again on the manager, after the key file was removed or damaged), the key
\* the manager holds is the key in the key file; and a token save_config then
\* writes is a token of the key in the key file, so that a manager built
\* afterwards can decrypt it.
C12_ManagerKeyIsPersistedKey ==
    /\ (KeyCall /\ last.exc = "none" /\ mgr.alive)
        => /\ keyFile.st = "valid"
           /\ mgr.key = keyFile.k
    /\ (last.op = "save_config" /\ last.exc = "none" /\ last.pre.keySt = "valid")
        => cfgFile.cfg.encrypted_password.k = keyFile.k

\* C12, the part about the constructor alone: a manager just built holds the
\* key in the key file.
C12_ConstructorKeyIsPersistedKey ==
    (last.op = "ConfigManager" /\ last.exc = "none")
    => /\ mgr.alive
       /\ keyFile.st = "valid"
       /\ mgr.key = keyFile.k

\* How many times save_config ran in the last submit.
SavesInLog ==
    Cardinality({i \in 1..Len(last.info.log) : last.info.log[i] = "save_config"})

\* The last submit saved the entered settings and secret once, as its last
\* step, and the record on disk is the one entered.
SubmitSavedOnce ==
    /\ last.info.saved
    /\ SavesInLog = 1
    /\ last.info.log[Len(last.info.log)] = "save_config"
    /\ cfgFile = WriteFile(SavedRecord(last.info.args, last.info.password))

\* C13: every submit whose weather request was answered (with data or
\* without) leaves config.ini and the key file as they were when the checkbox
\* is clear, and saves the entered settings and secret exactly once, after
\* the fetch and the delivery attempt, when the checkbox is set, whether the
\* mail was delivered or not.
C13_PersistenceFollowsToggle ==
    [][(last'.op = "on_submit" /\ last'.info.resp.kind = "response")
       => /\ ~last'.info.checked => (cfgFile' = cfgFile /\ keyFile' = keyFile)
          /\ last'.info.checked => SubmitSavedOnce']_vars

\* C13, the part about the clear checkbox: such a submit changes neither
\* file and does not run save_config.
C13_UncheckedLeavesFiles ==
    [][(last'.op = "on_submit" /\ ~last'.info.checked)
       => /\ cfgFile' = cfgFile
          /\ keyFile' = keyFile
          /\ tokensMade' = tokensMade
          /\ SavesInLog' = 0]_vars

\* C13, the part about the set checkbox when nothing raises: a submit that
\* returns normally has saved once, last, whether the fetch gave data or not
\* and whether the mail was sent or refused.
C13_CheckedSavesWhenNothingRaises ==
    [][(last'.op = "on_submit" /\ last'.info.checked /\ last'.exc = "none")
       => SubmitSavedOnce']_vars

\* C13: a submit with the checkbox set never saves more than once and never
\* before the fetch and the delivery attempt.
C13_NeverSavesTwiceOrEarly ==
    last.op = "on_submit"
    => /\ SavesInLog <= 1
       /\ \A i \in 1..Len(last.info.log) :
            last.info.log[i] = "save_config" => i = Len(last.info.log)
====
